---- MODULE Spec2Model ----
(***************************************************************************)
(* A model of the colored-tags plugin (src/main.ts): the ordinal registry  *)
(* of hierarchical tags (saveKnownTags), the settings load and migration   *)
(* (loadSettings), the palettes (generatePalettes, findPaletteOffset,       *)
(* generateColorPalette), the per-tag colour resolution (getColors,        *)
(* darkenColorForContrast, colorizeTag, update, reload) and the buffered   *)
(* delivery of the CSS (appendCSS, removeCSS).                             *)
(*                                                                         *)
(* A JavaScript string is a sequence of one-character strings, so that     *)
(* split, join, startsWith and the regular expressions of the source are   *)
(* computed character by character as the source computes them.            *)
(***************************************************************************)
EXTENDS Integers, Sequences, FiniteSets, TLC

VARIABLES
    phase,              \* "constructed" | "loaded" | "ready": how far onload has run
    disk,               \* the plugin's data.json: Undef, or Def(the stored object)
    settings,           \* this.settings
    tagsMap,            \* this.tagsMap: a Map in insertion order, <<[key, slot], ...>>
    palettes,           \* this.palettes: [light, dark], each a JS value
    renderedTagsSet,    \* this.renderedTagsSet
    appendingCSSBuffer, \* the module-level buffer of appendCSS
    flushPending,       \* the microtasks appendCSS has queued and that have not run
    styleEl,            \* the <style colored-tags-style> element: Undef or Def(its text)
    darkenMemoization,  \* the module-level Map of darkenColorForContrast, as a function
    thrown,             \* whether the last handler ended with an exception
    writes,             \* the saveData calls the last handler made
    lastCall            \* history: what the last handler was and what it did

vars == <<phase, disk, settings, tagsMap, palettes, renderedTagsSet,
          appendingCSSBuffer, flushPending, styleEl, darkenMemoization, thrown, writes,
          lastCall>>

-----------------------------------------------------------------------------
(* JavaScript values                                                        *)

\* undefined / null, and a defined value
Undef == [def |-> FALSE]
Def(x) == [def |-> TRUE, val |-> x]

\* obj.f of an object held as a record: undefined when the field is missing
Prop(obj, f) == IF f \in DOMAIN obj THEN Def(obj[f]) ELSE Undef

\* Object.assign({}, a, b)
ObjectAssign(a, b) ==
    [f \in (DOMAIN a) \cup (DOMAIN b) |-> IF f \in DOMAIN b THEN b[f] ELSE a[f]]

\* obj with obj.f = v
SetProp(obj, f, v) ==
    [g \in (DOMAIN obj) \cup {f} |-> IF g = f THEN v ELSE obj[g]]

Max0(S) == IF S = {} THEN 0 ELSE CHOOSE x \in S : \A y \in S : y <= x

Range(s) == {s[i] : i \in 1..Len(s)}

\* f applied to the value of x, x evaluated once as the initialiser of a const
\* declaration is
With(x, f(_)) == CHOOSE y \in {f(v) : v \in {x}} : TRUE

-----------------------------------------------------------------------------
(* Strings                                                                  *)

RECURSIVE SplitFrom(_, _, _, _)
SplitFrom(s, sep, i, cur) ==
    IF i > Len(s) THEN <<cur>>
    ELSE IF s[i] = sep THEN <<cur>> \o SplitFrom(s, sep, i + 1, <<>>)
    ELSE SplitFrom(s, sep, i + 1, Append(cur, s[i]))

\* s.split(sep) for a one-character separator: "" splits to [""]
split(s, sep) == SplitFrom(s, sep, 1, <<>>)

RECURSIVE join(_, _)
\* parts.join(sep)
join(parts, sep) ==
    IF Len(parts) = 0 THEN <<>>
    ELSE IF Len(parts) = 1 THEN parts[1]
    ELSE parts[1] \o <<sep>> \o join(Tail(parts), sep)

\* s.startsWith(p)
startsWith(s, p) == Len(p) <= Len(s) /\ SubSeq(s, 1, Len(p)) = p

\* a faulty joinKey: the chunk alone, the prefix forgotten
joinKeyChunkOnly(combinedTag, chunk) == chunk

\* [a, b].filter(Boolean).join('/') on strings: the empty string is falsy
joinKey(combinedTag, chunk) ==
    join(SelectSeq(<<combinedTag, chunk>>, LAMBDA x : Len(x) > 0), "/")

\* tag.replace(/#/g, "")
stripHash(tag) == SelectSeq(tag, LAMBDA c : c # "#")

\* tag.match(/\/$/)
endsWithSlash(tag) == Len(tag) > 0 /\ tag[Len(tag)] = "/"

-----------------------------------------------------------------------------
(* Map<string, number> in insertion order                                   *)

mapKeys(m) == [i \in 1..Len(m) |-> m[i].key]
mapHas(m, k) == \E i \in 1..Len(m) : m[i].key = k
\* m.get(k) || dflt
mapGetOr(m, k, dflt) ==
    IF mapHas(m, k)
    THEN LET v == m[CHOOSE i \in 1..Len(m) : m[i].key = k].slot
         IN IF v = 0 THEN dflt ELSE v
    ELSE dflt
\* m.set(k, v): a new key goes last, an old key keeps its place
mapSet(m, k, v) ==
    IF mapHas(m, k)
    THEN [i \in 1..Len(m) |-> IF m[i].key = k THEN [key |-> k, slot |-> v] ELSE m[i]]
    ELSE Append(m, [key |-> k, slot |-> v])

-----------------------------------------------------------------------------
(* The ordinal registry: saveKnownTags and getTagsFromApp                   *)

\* getTagsFromApp: the keys of metadataCache.getTags(), '#' removed, without the
\* tags that end with '/' and without the empty ones
getTagsFromApp(tagsArray) ==
    LET stripped == [i \in 1..Len(tagsArray) |-> stripHash(tagsArray[i])]
        noSlash == SelectSeq(stripped, LAMBDA tag : ~endsWithSlash(tag))
    IN SelectSeq(noSlash, LAMBDA x : Len(x) > 0)

RECURSIVE setAddAll(_, _)
\* combinedSet.add(tag) for each tag, in order: a Set keeps the first insertion
setAddAll(acc, tags) ==
    IF Len(tags) = 0 THEN acc
    ELSE setAddAll(IF Head(tags) \in Range(acc) THEN acc ELSE Append(acc, Head(tags)),
                   Tail(tags))

\* Array.from(new Set(tagsMap.keys()) plus the discovered tags)
combinedTagsOf(m, discovered) == setAddAll(mapKeys(m), discovered)

\* the siblings filter: the combined tags with chunkIndex + 1 chunks that start
\* with combinedTag (chunkIndex counts from 0)
siblingsOf(combinedTags, combinedTag, chunkIndex) ==
    {keyd \in Range(combinedTags) :
        /\ Len(split(keyd, "/")) = chunkIndex + 1
        /\ startsWith(keyd, combinedTag)}

\* siblings.reduce(max(acc, tagsMap.get(sibling) || 0), 0)
maxValueOf(m, siblings) == Max0({mapGetOr(m, sibling, 0) : sibling \in siblings})

\* a faulty registerKey: the has() test dropped, every visited key is set again
registerKeyAlways(st, combinedTags, combinedTag, chunkIndex, key) ==
    LET slot == maxValueOf(st.map, siblingsOf(combinedTags, combinedTag, chunkIndex)) + 1
    IN [map |-> mapSet(st.map, key, slot),
        isNeedToSave |-> TRUE,
        log |-> Append(st.log, [key |-> key, slot |-> slot, before |-> st.map])]

\* a faulty registerKey: isNeedToSave is set for every visited key
registerKeyDirty(st, combinedTags, combinedTag, chunkIndex, key) ==
    IF ~mapHas(st.map, key)
    THEN LET slot == maxValueOf(st.map,
                                siblingsOf(combinedTags, combinedTag, chunkIndex)) + 1
         IN [map |-> mapSet(st.map, key, slot),
             isNeedToSave |-> TRUE,
             log |-> Append(st.log, [key |-> key, slot |-> slot, before |-> st.map])]
    ELSE [st EXCEPT !.isNeedToSave = TRUE]

\* the body of the inner forEach for one chunk: a key the map does not have gets
\* 1 + the largest slot of its siblings. st.log records each assignment with the
\* map as it was at that moment (history only).
registerKey(st, combinedTags, combinedTag, chunkIndex, key) ==
    IF ~mapHas(st.map, key)
    THEN LET slot == maxValueOf(st.map,
                                siblingsOf(combinedTags, combinedTag, chunkIndex)) + 1
         IN [map |-> mapSet(st.map, key, slot),
             isNeedToSave |-> TRUE,
             log |-> Append(st.log, [key |-> key, slot |-> slot, before |-> st.map])]
    ELSE st

RECURSIVE chunksForEach(_, _, _, _, _)
\* chunks.forEach((chunk, chunkIndex) => ...), combinedTag carried along
chunksForEach(st, combinedTags, chunks, chunkIndex, combinedTag) ==
    IF chunkIndex >= Len(chunks) THEN st
    ELSE LET key == joinKey(combinedTag, chunks[chunkIndex + 1])
         IN chunksForEach(registerKey(st, combinedTags, combinedTag, chunkIndex, key),
                          combinedTags, chunks, chunkIndex + 1, key)

RECURSIVE tagsForEach(_, _, _)
\* combinedTags.forEach((tag) => ...): combinedTags is the array made before the loop
tagsForEach(st, combinedTags, index) ==
    IF index > Len(combinedTags) THEN st
    ELSE tagsForEach(chunksForEach(st, combinedTags,
                                   split(combinedTags[index], "/"), 0, <<>>),
                     combinedTags, index + 1)

\* the synchronous part of saveKnownTags up to the isNeedToSave test
registerAll(m, tagsArray) ==
    tagsForEach([map |-> m, isNeedToSave |-> FALSE, log |-> <<>>],
                combinedTagsOf(m, getTagsFromApp(tagsArray)), 1)

-----------------------------------------------------------------------------
(* Settings: DEFAULT_SETTINGS, isValidHexColor, loadSettings                *)

\* an object with no own property
EmptyObject == [f \in {} |-> 0]

DEFAULT_SETTINGS ==
    [chroma |-> 16, lightness |-> 87, palette |-> 16, seed |-> 0,
     knownTags |-> <<>>, _version |-> 2, enableCustomColors |-> TRUE]

HexDigits ==
    {"0", "1", "2", "3", "4", "5", "6", "7", "8", "9",
     "a", "b", "c", "d", "e", "f", "A", "B", "C", "D", "E", "F"}

\* /^#([A-Fa-f0-9]{6}|[A-Fa-f0-9]{3})$/.test(hexString)
isValidHexColor(hexString) ==
    /\ Len(hexString) \in {4, 7}
    /\ hexString[1] = "#"
    /\ \A i \in 2..Len(hexString) : hexString[i] \in HexDigits

\* lines 277-281: a non-empty customColors array of the loaded data is filtered
filterCustomColors(loadedData) ==
    IF /\ loadedData.def
       /\ "customColors" \in DOMAIN loadedData.val
       /\ Len(loadedData.val.customColors) > 0
    THEN Def(SetProp(loadedData.val, "customColors",
                     SelectSeq(loadedData.val.customColors, isValidHexColor)))
    ELSE loadedData

\* a faulty needsMigration: <= for <
needsMigrationOffByOne(loadedData) ==
    /\ loadedData.def
    /\ "_version" \in DOMAIN loadedData.val
    /\ loadedData.val._version <= 2

\* loadedData && loadedData._version < 2 (undefined < 2 is false)
needsMigration(loadedData) ==
    /\ loadedData.def
    /\ "_version" \in DOMAIN loadedData.val
    /\ loadedData.val._version < 2

\* lines 285-290: the migration of data older than version 2
migrate(loadedData) ==
    IF needsMigration(loadedData)
    THEN Def(SetProp(SetProp(loadedData.val, "palette", 16), "_version", 2))
    ELSE loadedData

\* loadSettings: the settings and whether saveData is called
loadSettings(stored) ==
    LET loadedData == migrate(filterCustomColors(stored))
    IN [settings |-> ObjectAssign(DEFAULT_SETTINGS,
                                  IF loadedData.def THEN loadedData.val ELSE EmptyObject),
        needToSave |-> needsMigration(filterCustomColors(stored))]

-----------------------------------------------------------------------------
(* Colours. A colour string made by Color.toString() of an lch colour is    *)
(* the token sequence <<"lch", l, c, hNum, hDen>>, its hue being the exact  *)
(* fraction hNum / hDen degrees; a colour string typed by the user is a     *)
(* sequence of characters. The colour arithmetic of colorjs.io (mix,        *)
(* contrast) is outside the repository: mix is kept as a term.              *)

\* a % b of JavaScript for b > 0: the sign of the dividend
jsMod(a, b) == IF a >= 0 THEN a % b ELSE 0 - ((0 - a) % b)

\* Math.round(n / d) for n >= 0, d > 0
roundDiv(n, d) == (2 * n + d) \div (2 * d)

\* new Color("lch", [lightness, chroma, hue % 360]).toString()
lchString(l, c, hNum, hDen) == <<"lch", l, c, hNum % (360 * hDen), hDen>>

isLchString(str) == Len(str) = 5 /\ str[1] = "lch"

NamedColors == {<<"r", "e", "d">>}

\* whether new Color(value) accepts the value: undefined and "" are refused
\* ("Empty color reference"), as is a string that is no colour
colorParses(value) ==
    /\ value.def
    /\ \/ isLchString(value.val)
       \/ /\ Len(value.val) \in {4, 5, 7, 9}
          /\ value.val[1] = "#"
          /\ \A i \in 2..Len(value.val) : value.val[i] \in HexDigits
       \/ value.val \in NamedColors

\* new Color(str).to('lch')
toLch(str) == [color |-> str]

\* acc.mix(color, 0.4, {space: "lch"}): the weight in percent
mix(acc, color, percent) == [mixOf |-> acc, with |-> toLch(color), percent |-> percent]

\* the lch lightness and chroma of the colours the model names by their text
\* (colorjs.io computes them)
HexLightness(str) ==
    CASE str = <<"#", "f", "0", "0">> -> 54
      [] str = <<"#", "0", "0", "f">> -> 30
      [] str = <<"#", "f", "f", "f">> -> 100
      [] str = <<"#", "0", "0", "0">> -> 0
      [] OTHER -> 50

HexChroma(str) ==
    CASE str = <<"#", "f", "0", "0">> -> 107
      [] str = <<"#", "0", "0", "f">> -> 131
      [] str = <<"#", "f", "f", "f">> -> 0
      [] str = <<"#", "0", "0", "0">> -> 0
      [] OTHER -> 50

RECURSIVE lightnessOf(_)
\* color.l of an lch colour: of a parsed string, or of a mix (the weight in
\* percent, the result truncated to a whole number)
lightnessOf(color) ==
    IF "mixOf" \in DOMAIN color
    THEN LET a == lightnessOf(color.mixOf)
             b == lightnessOf(color.with)
         IN (a * (100 - color.percent) + b * color.percent) \div 100
    ELSE IF isLchString(color.color) THEN color.color[2]
         ELSE HexLightness(color.color)

RECURSIVE chromaOf(_)
\* color.c of an lch colour
chromaOf(color) ==
    IF "mixOf" \in DOMAIN color
    THEN LET a == chromaOf(color.mixOf)
             b == chromaOf(color.with)
         IN (a * (100 - color.percent) + b * color.percent) \div 100
    ELSE IF isLchString(color.color) THEN color.color[3]
         ELSE HexChroma(color.color)

\* const CONTRAST = 4.5, in tenths
CONTRAST == 45

\* the threshold of contrastAPCA in both tests
ContrastAPCA == 60

\* the steps of the for loop
DarkenSteps == 100

\* the result when no candidate passes: the text '#fff'
White == [text |-> <<"#", "f", "f", "f">>]

\* a lightness as the display shows it: within 0..100
clipLightness(l) == IF l < 0 THEN 0 ELSE IF l > 100 THEN 100 ELSE l

\* the relative luminance of a lightness, in ten-thousandths: colorjs.io computes
\* it from the colour; the model takes the square of the clipped lightness
relativeLuminance(l) == clipLightness(l) * clipLightness(l)

\* background.contrastAPCA(text) of colorjs.io: positive when the background is
\* the lighter one; the model takes the difference of the clipped lightnesses
contrastAPCA(backgroundL, textL) == clipLightness(backgroundL) - clipLightness(textL)

\* a.contrastWCAG21(b) of colorjs.io, in tenths: (Ymax + 0.05) / (Ymin + 0.05)
contrastWCAG21(aL, bL) ==
    LET ya == relativeLuminance(aL)
        yb == relativeLuminance(bL)
        hi == IF ya >= yb THEN ya ELSE yb
        lo == IF ya >= yb THEN yb ELSE ya
    IN ((hi + 500) * 10) \div (lo + 500)

\* colorLight and colorDark before the loop: the base colour in lch with
\* chroma + 3 and chroma + 20
colorLightOf(baseColor) ==
    [candidateOf |-> baseColor, l |-> lightnessOf(baseColor),
     c |-> chromaOf(baseColor) + 3]

colorDarkOf(baseColor) ==
    [candidateOf |-> baseColor, l |-> lightnessOf(baseColor),
     c |-> chromaOf(baseColor) + 20]

\* the two tests of the loop body, on the lightness of the candidate and of
\* the base colour
lightPasses(candidateL, baseL) ==
    /\ contrastAPCA(candidateL, baseL) >= ContrastAPCA
    /\ contrastWCAG21(candidateL, baseL) >= CONTRAST

darkPasses(candidateL, baseL) ==
    /\ contrastAPCA(candidateL, baseL) <= -ContrastAPCA
    /\ contrastWCAG21(candidateL, baseL) >= CONTRAST

RECURSIVE darkenLoopFrom(_, _, _, _, _)
\* the iterations i to last - 1 of the for loop, colorLight and colorDark as
\* iteration i finds them: the colour it breaks with, or Undef when none of
\* them breaks
darkenLoopFrom(baseL, colorLight, colorDark, i, last) ==
    IF i >= last THEN Undef
    ELSE IF lightPasses(colorLight.l, baseL) THEN Def(colorLight)
    ELSE IF darkPasses(colorDark.l, baseL) THEN Def(colorDark)
    ELSE darkenLoopFrom(baseL, [colorLight EXCEPT !.l = @ + 1],
                        [colorDark EXCEPT !.l = @ - 1], i + 1, last)

\* the iterations are evaluated ten at a time
DarkenRun == 10

RECURSIVE darkenLoopUpTo(_, _, _, _, _)
\* the for loop from iteration i on, with its bound: result stays '#fff' when it
\* ends without a break
darkenLoopUpTo(baseL, colorLight, colorDark, i, steps) ==
    IF i >= steps THEN White
    ELSE With(darkenLoopFrom(baseL, colorLight, colorDark, i,
                             IF i + DarkenRun > steps THEN steps ELSE i + DarkenRun),
              LAMBDA broke :
                  IF broke.def THEN broke.val
                  ELSE darkenLoopUpTo(baseL, [colorLight EXCEPT !.l = @ + DarkenRun],
                                      [colorDark EXCEPT !.l = @ - DarkenRun],
                                      i + DarkenRun, steps))

\* a faulty darkenLoop: the loop ends after half the steps
darkenLoopShort(baseColor) ==
    With(colorLightOf(baseColor), LAMBDA colorLight :
        darkenLoopUpTo(colorLight.l, colorLight, colorDarkOf(baseColor), 0,
                       DarkenSteps \div 2))

\* the loop of darkenColorForContrast from colorLight and colorDark
darkenLoop(baseColor) ==
    With(colorLightOf(baseColor), LAMBDA colorLight :
        darkenLoopUpTo(colorLight.l, colorLight, colorDarkOf(baseColor), 0,
                       DarkenSteps))

\* darkenColorForContrast(baseColor) under the memo: the result and the memo
\* after the call
darkenColorForContrast(memo, baseColor) ==
    IF baseColor \in DOMAIN memo
    THEN [result |-> memo[baseColor], memo |-> memo]
    ELSE With(darkenLoop(baseColor), LAMBDA result :
             [result |-> result,
              memo |-> [k \in DOMAIN memo \cup {baseColor} |->
                           IF k = baseColor THEN result ELSE memo[k]]])

-----------------------------------------------------------------------------
(* getColors, colorizeTag, appendCSS, update                                *)

\* a faulty orderOf: the default slot is 0
orderOfZero(m, key) == mapGetOr(m, key, 0)

\* this.tagsMap.get(key) || 1
orderOf(m, key) == mapGetOr(m, key, 1)

\* (order - 1) % palette.length, for a palette that is not empty
paletteIndex(order, length) == jsMod(order - 1, length)

\* palette[(order - 1) % palette.length]: undefined when the palette is empty (the
\* index is NaN) or the index is not one of its indexes
colorFromPaletteOf(palette, order) ==
    IF Len(palette) = 0 THEN Undef
    ELSE LET index == paletteIndex(order, Len(palette))
         IN IF index \in 0..(Len(palette) - 1) THEN Def(palette[index + 1]) ELSE Undef

\* the value of combinedTag after one step of the reducer: it is assigned only
\* on the path that does not return early, that is while acc is still null
combinedTagAfter(acc, combinedTag, key) == IF acc.def THEN combinedTag ELSE key

RECURSIVE chunksReduce(_, _, _, _, _, _)
\* chunks.reduce((acc, chunk, i) => ..., null). res.ok is FALSE when an exception
\* ended it; res.lookups records each key looked up (history only)
chunksReduce(m, palette, chunks, i, combinedTag, res) ==
    IF i >= Len(chunks) \/ ~res.ok THEN res
    ELSE LET key == joinKey(combinedTag, chunks[i + 1])
             order == orderOf(m, key)
         IN IF ~palette.def
            THEN [res EXCEPT !.ok = FALSE]   \* palette.length of undefined
            ELSE LET colorFromPalette == colorFromPaletteOf(palette.val, order)
                     look == [key |-> key, has |-> mapHas(m, key), order |-> order,
                              length |-> Len(palette.val),
                              index |-> IF Len(palette.val) = 0 THEN Undef
                                        ELSE Def(paletteIndex(order, Len(palette.val))),
                              color |-> colorFromPalette]
                     next == IF ~colorParses(colorFromPalette)
                             THEN [ok |-> FALSE, acc |-> res.acc,
                                   lookups |-> Append(res.lookups, look)]
                             ELSE [ok |-> TRUE,
                                   acc |-> IF res.acc.def
                                           THEN Def(mix(res.acc.val,
                                                        colorFromPalette.val, 40))
                                           ELSE Def(toLch(colorFromPalette.val)),
                                   lookups |-> Append(res.lookups, look)]
                 IN chunksReduce(m, palette, chunks, i + 1,
                                 combinedTagAfter(res.acc, combinedTag, key), next)

\* getColors(input, palette): {background, color}, or ok = FALSE for an exception
getColors(m, memo, input, palette) ==
    With(chunksReduce(m, palette, split(input, "/"), 0, <<>>,
                      [ok |-> TRUE, acc |-> Undef, lookups |-> <<>>]),
         LAMBDA res :
             IF res.ok
             THEN With(darkenColorForContrast(memo, res.acc.val), LAMBDA d :
                      [ok |-> TRUE, background |-> res.acc.val, color |-> d.result,
                       memo |-> d.memo, lookups |-> res.lookups])
             ELSE [ok |-> FALSE, memo |-> memo, lookups |-> res.lookups])

\* tagName.replace(/\//g, "\\/")
RECURSIVE escapeSlashes(_)
escapeSlashes(str) ==
    IF Len(str) = 0 THEN <<>>
    ELSE (IF Head(str) = "/" THEN <<"\\", "/">> ELSE <<Head(str)>>)
         \o escapeSlashes(Tail(str))

LowerOf ==
    [c \in {"A", "B", "C", "D", "E", "F"} |->
        CASE c = "A" -> "a" [] c = "B" -> "b" [] c = "C" -> "c"
          [] c = "D" -> "d" [] c = "E" -> "e" [] c = "F" -> "f"]

LowerLetters ==
    {"a", "b", "c", "d", "e", "f", "g", "h", "i", "j", "k", "l", "m",
     "n", "o", "p", "q", "r", "s", "t", "u", "v", "w", "x", "y", "z"}

FlatChars == HexDigits \cup LowerLetters \cup {"-"}

\* tagName.replace(/[^0-9a-z-]/ig, '').toLowerCase(), over the model's letters
tagFlatOf(tagName) ==
    LET kept == SelectSeq(tagName, LAMBDA c : c \in FlatChars)
    IN [i \in 1..Len(kept) |-> IF kept[i] \in DOMAIN LowerOf THEN LowerOf[kept[i]]
                                ELSE kept[i]]

\* colorizeTag up to the appendCSS call: the CSS text as a record, or ok = FALSE
\* when getColors threw
colorizeTag(m, pal, memo, tagName0) ==
    With(stripHash(tagName0), LAMBDA tagName :
    With(getColors(m, memo, tagName, pal.light), LAMBDA light :
        IF ~light.ok THEN [ok |-> FALSE, memo |-> light.memo, lookups |-> light.lookups]
        ELSE With(getColors(m, light.memo, tagName, pal.dark), LAMBDA dark :
            IF ~dark.ok THEN [ok |-> FALSE, memo |-> dark.memo, lookups |-> dark.lookups]
            ELSE [ok |-> TRUE,
                  memo |-> dark.memo,
                  css |-> [tagName |-> tagName,
                           tagHref |-> <<"#">> \o escapeSlashes(tagName),
                           tagFlat |-> tagFlatOf(tagName),
                           backgroundLight |-> light.background,
                           colorLight |-> light.color,
                           backgroundDark |-> dark.background,
                           colorDark |-> dark.color,
                           lookupsLight |-> light.lookups,
                           lookupsDark |-> dark.lookups]])))

\* appendCSS(css): the block is pushed, and a flush is queued when the buffer
\* held nothing before
appendCSS(dom, css) ==
    [dom EXCEPT !.buffer = Append(dom.buffer, css),
                !.pending = IF Len(dom.buffer) + 1 > 1 THEN dom.pending
                            ELSE dom.pending + 1]

RECURSIVE tagsMapForEach(_, _, _, _)
\* update(): tags.forEach: a tag not yet rendered is added to the rendered set
\* and colorized; an exception of colorizeTag ends the loop. st.emitted are the
\* blocks this call passed to appendCSS and st.failed the lookups of the
\* getColors call that threw (history only)
tagsMapForEach(m, pal, i, st) ==
    IF i > Len(m) \/ st.thrown THEN st
    ELSE IF m[i].key \in st.rendered
         THEN tagsMapForEach(m, pal, i + 1, st)
         ELSE With(colorizeTag(m, pal, st.memo, m[i].key), LAMBDA c :
                  tagsMapForEach(m, pal, i + 1,
                      IF c.ok
                      THEN [st EXCEPT !.rendered = st.rendered \cup {m[i].key},
                                      !.dom = appendCSS(st.dom, c.css),
                                      !.memo = c.memo,
                                      !.emitted = Append(st.emitted, c.css)]
                      ELSE [st EXCEPT !.rendered = st.rendered \cup {m[i].key},
                                      !.thrown = TRUE,
                                      !.memo = c.memo,
                                      !.failed = c.lookups]))

\* update() from the given rendered set, DOM state and memo
update(m, pal, rendered, dom, memo) ==
    tagsMapForEach(m, pal, 1, [rendered |-> rendered, dom |-> dom, memo |-> memo,
                               thrown |-> FALSE, emitted |-> <<>>, failed |-> <<>>])

-----------------------------------------------------------------------------
(* generateColorPalette, findPaletteOffset, generatePalettes                *)

\* the colours in hue order: hue = i * (360 / paletteSize) + constantOffset, kept
\* as the fraction (i * 360 + constantOffset * paletteSize) / paletteSize
availableColorsOf(cfg) ==
    LET chroma == IF cfg.isDarkTheme THEN roundDiv(cfg.baseChroma * 18, 10)
                  ELSE cfg.baseChroma
        lightness == IF cfg.isDarkTheme THEN roundDiv(cfg.baseLightness * 10, 25)
                     ELSE cfg.baseLightness
    IN [k \in 1..cfg.paletteSize |->
            lchString(lightness, chroma,
                      (k - 1) * 360 + cfg.constantOffset * cfg.paletteSize,
                      cfg.paletteSize)]

\* arr.splice(next, 1)
removeAt(arr, next) ==
    [k \in 1..(Len(arr) - 1) |-> IF k <= next THEN arr[k] ELSE arr[k + 1]]

RECURSIVE shuffleLoop(_, _, _)
\* the while loop of lines 383-387: take the colour at next, remove it, and move
\* next on by round(remaining / 3), modulo the remaining length
shuffleLoop(result, available, next) ==
    IF Len(available) = 0 THEN result
    ELSE LET rest == removeAt(available, next)
         IN shuffleLoop(Append(result, available[next + 1]), rest,
                        IF Len(rest) = 0 THEN 0
                        ELSE (next + roundDiv(Len(rest), 3)) % Len(rest))

\* a faulty rotateBySeed: the colours cut off are not put back
rotateBySeedDrop(result, seed) ==
    SubSeq(result, 1, Len(result) - (IF seed > Len(result) THEN Len(result) ELSE seed))

\* result.splice(-seed, seed) put back in front: the last seed colours first
rotateBySeed(result, seed) ==
    LET n == Len(result)
        cutLen == IF seed > n THEN n ELSE seed
    IN SubSeq(result, n - cutLen + 1, n) \o SubSeq(result, 1, n - cutLen)

generateColorPalette(cfg) ==
    IF ~cfg.isShuffling THEN availableColorsOf(cfg)
    ELSE rotateBySeed(shuffleLoop(<<>>, availableColorsOf(cfg), 0), cfg.seed)

\* Color.contrast(a, b, 'weber') of colorjs.io, in ten-thousandths:
\* (Ymax - Ymin) / Ymin, and 50000 when Ymin is 0. The luminance of an lch
\* colour is led by its lightness and moved a little by chroma and hue.
luminanceOf(str) ==
    LET hue == str[4] \div str[5]
    IN 1000 * str[2] + (str[3] * (IF hue > 180 THEN hue - 180 ELSE 180 - hue)) \div 18

contrastWeber(a, b) ==
    LET ya == luminanceOf(a)
        yb == luminanceOf(b)
        hi == IF ya >= yb THEN ya ELSE yb
        lo == IF ya >= yb THEN yb ELSE ya
    IN IF lo = 0 THEN 500000000 ELSE ((hi - lo) * 10000) \div lo

RECURSIVE scoreFrom(_, _)
\* the reduce of scoreOffset: the sum of the contrasts of neighbours in order
scoreFrom(testingPalette, k) ==
    IF k > Len(testingPalette) THEN 0
    ELSE contrastWeber(testingPalette[k], testingPalette[k - 1])
         + scoreFrom(testingPalette, k + 1)

scoreOffset(paletteConfig, value) ==
    scoreFrom(generateColorPalette(SetProp(paletteConfig, "constantOffset", value)), 2)

OffsetCandidates == 180

\* a faulty offsetStep: > for >=
offsetStepStrict(paletteConfig, best, i) ==
    LET res == scoreOffset(paletteConfig, i)
    IN IF res > best.maxScore THEN [offset |-> i, maxScore |-> res] ELSE best

\* one iteration: if (res >= maxScore) { maxScore = res; offset = i }
offsetStep(paletteConfig, best, i) ==
    LET res == scoreOffset(paletteConfig, i)
    IN IF res >= best.maxScore THEN [offset |-> i, maxScore |-> res] ELSE best

RECURSIVE offsetLoop(_, _, _, _)
\* the iterations i = lo .. hi - 1 of the for loop, in order, from the offset and
\* maxScore in best. The range is halved to keep the evaluation shallow; the
\* test of first.offset always holds and makes the first half be evaluated
\* before the second is entered.
offsetLoop(paletteConfig, best, lo, hi) ==
    IF hi <= lo THEN best
    ELSE IF hi = lo + 1 THEN offsetStep(paletteConfig, best, lo)
    ELSE LET mid == (lo + hi) \div 2
             first == offsetLoop(paletteConfig, best, lo, mid)
         IN IF first.offset < mid
            THEN offsetLoop(paletteConfig, first, mid, hi)
            ELSE first

findPaletteOffset(paletteConfig) ==
    offsetLoop(paletteConfig, [offset |-> 0, maxScore |-> 0], 0, OffsetCandidates).offset

\* a faulty customPalettes: the dark palette is the custom list reversed
customPalettesReversed(st) ==
    LET cc == Prop(st, "customColors")
    IN [light |-> cc,
        dark |-> IF cc.def
                 THEN Def([k \in 1..Len(cc.val) |-> cc.val[Len(cc.val) + 1 - k]])
                 ELSE cc]

\* lines 233-237: both palettes are settings.customColors, undefined included
customPalettes(st) ==
    [light |-> Prop(st, "customColors"), dark |-> Prop(st, "customColors")]

\* a faulty generatedPalettes: the dark palette is generated with the offset
\* after the one found
generatedPalettesOwnOffset(st) ==
    LET commonPaletteConfig ==
            [paletteSize |-> st.palette, baseChroma |-> st.chroma,
             baseLightness |-> st.lightness, seed |-> st.seed, isShuffling |-> TRUE]
        offset == findPaletteOffset(
                      ObjectAssign(commonPaletteConfig,
                                   [isDarkTheme |-> FALSE, seed |-> 0,
                                    isShuffling |-> FALSE]))
    IN [light |-> Def(generateColorPalette(
                          ObjectAssign([isDarkTheme |-> FALSE, constantOffset |-> offset],
                                       commonPaletteConfig))),
        dark |-> Def(generateColorPalette(
                          ObjectAssign([isDarkTheme |-> TRUE,
                                        constantOffset |-> (offset + 1) % 180],
                                       commonPaletteConfig)))]

\* lines 239-266: the generated palettes
generatedPalettes(st) ==
    LET commonPaletteConfig ==
            [paletteSize |-> st.palette, baseChroma |-> st.chroma,
             baseLightness |-> st.lightness, seed |-> st.seed, isShuffling |-> TRUE]
        offset == findPaletteOffset(
                      ObjectAssign(commonPaletteConfig,
                                   [isDarkTheme |-> FALSE, seed |-> 0,
                                    isShuffling |-> FALSE]))
    IN [light |-> Def(generateColorPalette(
                          ObjectAssign([isDarkTheme |-> FALSE, constantOffset |-> offset],
                                       commonPaletteConfig))),
        dark |-> Def(generateColorPalette(
                          ObjectAssign([isDarkTheme |-> TRUE, constantOffset |-> offset],
                                       commonPaletteConfig)))]

\* generatePalettes()
generatePalettes(st) ==
    IF Prop(st, "enableCustomColors") = Def(TRUE)
    THEN customPalettes(st)
    ELSE generatedPalettes(st)

-----------------------------------------------------------------------------
(* The settings tab: the custom colours text field                          *)

RECURSIVE trimStart(_)
trimStart(str) ==
    IF Len(str) > 0 /\ Head(str) = " " THEN trimStart(Tail(str)) ELSE str

RECURSIVE trimEnd(_)
trimEnd(str) ==
    IF Len(str) > 0 /\ str[Len(str)] = " "
    THEN trimEnd(SubSeq(str, 1, Len(str) - 1)) ELSE str

\* color.trim()
trim(str) == trimEnd(trimStart(str))

\* value.split(',').map(color => color.trim())
customColorsOfText(value) ==
    LET parts == split(value, ",")
    IN [k \in 1..Len(parts) |-> trim(parts[k])]

-----------------------------------------------------------------------------
(* Inputs                                                                   *)

\* the most tags one call of metadataCache.getTags() returns
MaxDiscovered == 2

\* the sequences without repetition of at most n elements of S
SeqsUpTo(S, n) ==
    {q \in UNION {[1..k -> S] : k \in 0..n} :
        \A i, j \in 1..Len(q) : i # j => q[i] # q[j]}

\* the keys metadataCache.getTags() may hold: nested tags under two roots, a tag
\* that ends with the delimiter and a tag that starts with it
RegistryTags ==
    {<<"#", "a", "/", "b">>,
     <<"#", "b", "/", "a">>,
     <<"#", "a", "/">>,
     <<"#", "/", "a">>}

\* two tags of three levels under one parent
ColorTags ==
    {<<"#", "a", "/", "b", "/", "a">>,
     <<"#", "a", "/", "b", "/", "b">>}

\* a tag of three levels and a tag that shares its first and last segment
CousinTags ==
    {<<"#", "a", "/", "b", "/", "a">>,
     <<"#", "a", "/", "a">>}

\* a tag of three levels and a second root
PaletteTags ==
    {<<"#", "a", "/", "b", "/", "a">>,
     <<"#", "b">>}

\* what the user may type in the custom colours field
CustomColorTexts ==
    {<<"#", "0", "0", "f">>,
     <<"#", "0", "0", "f", ",", " ", "#", "f", "0", "0">>}

\* a text that is no list of colours
InvalidColorTexts == {<<"#", "f", "f">>}

\* a value of each palette control other than its default
PaletteSizes == {8}
SeedValues == {3}
ChromaValues == {64}
LightnessValues == {32}

-----------------------------------------------------------------------------
(* What data.json may hold before the plugin is loaded                      *)

\* written by this version with a list of custom colours
StoredCustom ==
    [chroma |-> 16, lightness |-> 87, palette |-> 16, seed |-> 0, knownTags |-> <<>>,
     _version |-> 2, enableCustomColors |-> TRUE,
     customColors |-> << <<"#", "f", "0", "0">>, <<"#", "0", "0", "f">> >>]

\* the same with other palette settings
StoredCustomSmall ==
    [chroma |-> 64, lightness |-> 32, palette |-> 8, seed |-> 3, knownTags |-> <<>>,
     _version |-> 2, enableCustomColors |-> TRUE,
     customColors |-> << <<"#", "f", "0", "0">>, <<"#", "0", "0", "f">> >>]

StoredVersions == {EmptyObject, [_version |-> 1], [_version |-> 2], [_version |-> 3]}
StoredPaletteSizes == {EmptyObject, [palette |-> 8], [palette |-> 32]}
StoredEnables ==
    {EmptyObject, [enableCustomColors |-> TRUE], [enableCustomColors |-> FALSE]}
StoredKnownTags ==
    {[knownTags |-> <<>>],
     [knownTags |-> <<[key |-> <<"a">>, slot |-> 1], [key |-> <<"b">>, slot |-> 2]>>]}
StoredCustomColors ==
    {EmptyObject,
     [customColors |-> <<>>],
     [customColors |-> << <<"#", "f", "f">>, <<"#", "0", "0", "f">>,
                          <<"r", "e", "d">>, <<"#", "A", "b", "c", "d", "e", "f">> >>],
     [customColors |-> << <<"#", "f", "0", "0", "0">>, <<"#", "g", "0", "0">>,
                          <<>> >>]}

\* the stored objects of every shape: fields present or missing one by one
StoredObjects ==
    {ObjectAssign(ObjectAssign(ObjectAssign(ObjectAssign(
         ObjectAssign([chroma |-> 16, lightness |-> 87, seed |-> 0], v), p), e), k), c) :
        v \in StoredVersions, p \in StoredPaletteSizes, e \in StoredEnables,
        k \in StoredKnownTags, c \in StoredCustomColors}

-----------------------------------------------------------------------------
(* The state machine                                                        *)

NewPalettes == [light |-> Def(<<>>), dark |-> Def(<<>>)]

\* the plugin and the module-level state after construction
InitFields(stored) ==
    /\ phase = "constructed"
    /\ disk \in stored
    /\ settings = EmptyObject
    /\ tagsMap = <<>>
    /\ palettes = NewPalettes
    /\ renderedTagsSet = {}
    /\ appendingCSSBuffer = <<>>
    /\ flushPending = 0
    /\ styleEl = Undef
    /\ darkenMemoization = <<>>
    /\ thrown = FALSE
    /\ writes = 0

InitWith(stored) ==
    /\ InitFields(stored)
    /\ lastCall = [op |-> "new"]

\* the most blocks appendingCSSBuffer may hold when a continuation starts that
\* runs before the queued flush
MaxBuffer == 1

\* a handler the host starts as a task of its own: the queued microtasks ran
TaskMayStart == flushPending = 0

\* the continuation of an await
ContinuationMayRun == flushPending = 0 \/ Len(appendingCSSBuffer) <= MaxBuffer

\* onload up to onLayoutReady: loadSettings, then tagsMap from knownTags. A
\* plugin enabled again is a new instance over the same data.json.
Onload ==
    /\ phase \in {"constructed", "unloaded"}
    /\ TaskMayStart
    /\ LET r == loadSettings(disk)
       IN /\ settings' = r.settings
          /\ disk' = IF r.needToSave THEN Def(r.settings) ELSE disk
          /\ writes' = IF r.needToSave THEN 1 ELSE 0
          /\ tagsMap' = r.settings.knownTags
    /\ phase' = "loaded"
    /\ palettes' = NewPalettes
    /\ renderedTagsSet' = {}
    /\ thrown' = FALSE
    /\ lastCall' = [op |-> "onload", stored |-> disk]
    /\ UNCHANGED <<appendingCSSBuffer, flushPending, styleEl, darkenMemoization>>

\* saveKnownTags() with tagsArray the keys of metadataCache.getTags()
saveKnownTags(tagsArray) ==
    \E r \in {registerAll(tagsMap, tagsArray)} :
    \E saved \in {SetProp(settings, "knownTags", r.map)} :
        /\ tagsMap' = r.map
        /\ settings' = IF r.isNeedToSave THEN saved ELSE settings
        /\ disk' = IF r.isNeedToSave THEN Def(saved) ELSE disk
        /\ writes' = IF r.isNeedToSave THEN 1 ELSE 0
        /\ thrown' = FALSE
        /\ lastCall' = [op |-> "saveKnownTags", tagsArray |-> tagsArray,
                        before |-> tagsMap, log |-> r.log,
                        repeated |-> /\ lastCall.op = "saveKnownTags"
                                     /\ lastCall.tagsArray = tagsArray]

\* the onLayoutReady callback up to its first await
LayoutReady(tagsArray) ==
    /\ phase = "loaded"
    /\ TaskMayStart
    /\ saveKnownTags(tagsArray)
    /\ phase' = "layout"
    /\ UNCHANGED <<palettes, renderedTagsSet, appendingCSSBuffer, flushPending, styleEl,
                   darkenMemoization>>

\* the editor-change and active-leaf-change handlers up to their await
OnVaultEvent(tagsArray) ==
    /\ phase = "ready"
    /\ TaskMayStart
    /\ saveKnownTags(tagsArray)
    /\ UNCHANGED <<phase, palettes, renderedTagsSet, appendingCSSBuffer, flushPending,
                   styleEl, darkenMemoization>>

\* reload(): onunload (the rendered set cleared, the style element removed),
\* generatePalettes, update
reload ==
    \E pal \in {generatePalettes(settings)} :
    \E u \in {update(tagsMap, pal, {},
                     [buffer |-> appendingCSSBuffer, pending |-> flushPending],
                     darkenMemoization)} :
        /\ palettes' = pal
        /\ darkenMemoization' = u.memo
        /\ renderedTagsSet' = u.rendered
        /\ appendingCSSBuffer' = u.dom.buffer
        /\ flushPending' = u.dom.pending
        /\ styleEl' = Undef
        /\ thrown' = u.thrown
        /\ lastCall' = [op |-> "reload", emitted |-> u.emitted, failed |-> u.failed]

\* the rest of the onLayoutReady callback: reload(), then the event handlers and
\* the settings tab are registered; an exception of reload() ends the callback
\* before they are
LayoutReadyResume ==
    /\ phase = "layout"
    /\ ContinuationMayRun
    /\ reload
    /\ phase' = IF thrown' THEN "failed" ELSE "ready"
    /\ writes' = 0
    /\ UNCHANGED <<disk, settings, tagsMap>>

\* the rest of an event handler: update()
UpdateResume ==
    /\ phase = "ready"
    /\ ContinuationMayRun
    /\ \E u \in {update(tagsMap, palettes, renderedTagsSet,
                          [buffer |-> appendingCSSBuffer, pending |-> flushPending],
                          darkenMemoization)} :
          /\ renderedTagsSet' = u.rendered
          /\ darkenMemoization' = u.memo
          /\ appendingCSSBuffer' = u.dom.buffer
          /\ flushPending' = u.dom.pending
          /\ thrown' = u.thrown
          /\ lastCall' = [op |-> "update", emitted |-> u.emitted, failed |-> u.failed]
    /\ writes' = 0
    /\ UNCHANGED <<phase, disk, settings, tagsMap, palettes, styleEl>>

\* an onChange handler of the settings tab up to the await of saveData: the
\* setting is assigned and the settings are written
onChange(field, value) ==
    /\ phase = "ready"
    /\ TaskMayStart
    /\ settings' = SetProp(settings, field, value)
    /\ disk' = Def(settings')
    /\ writes' = 1
    /\ thrown' = FALSE
    /\ lastCall' = [op |-> "onChange", field |-> field]
    /\ UNCHANGED <<phase, tagsMap, palettes, renderedTagsSet, appendingCSSBuffer,
                   flushPending, styleEl, darkenMemoization>>

OnChangeEnableCustomColors(value) == onChange("enableCustomColors", value)

OnChangePalette(value) ==
    /\ Prop(settings, "enableCustomColors") # Def(TRUE)
    /\ onChange("palette", value)

OnChangeSeed(value) ==
    /\ Prop(settings, "enableCustomColors") # Def(TRUE)
    /\ onChange("seed", value)

OnChangeChroma(value) ==
    /\ Prop(settings, "enableCustomColors") # Def(TRUE)
    /\ onChange("chroma", value)

OnChangeLightness(value) ==
    /\ Prop(settings, "enableCustomColors") # Def(TRUE)
    /\ onChange("lightness", value)

OnChangeCustomColors(value) ==
    /\ Prop(settings, "enableCustomColors") = Def(TRUE)
    /\ onChange("customColors", customColorsOfText(value))

\* the rest of saveSettings(): reload()
SaveSettingsResume ==
    /\ phase = "ready"
    /\ ContinuationMayRun
    /\ reload
    /\ writes' = 0
    /\ UNCHANGED <<phase, disk, settings, tagsMap>>

\* the microtask appendCSS queued: the style element is found or made, the
\* buffer is appended to its text and emptied
Flush ==
    /\ flushPending > 0
    /\ flushPending' = flushPending - 1
    /\ styleEl' = Def((IF styleEl.def THEN styleEl.val ELSE <<>>) \o appendingCSSBuffer)
    /\ appendingCSSBuffer' = <<>>
    /\ lastCall' = [op |-> "flush"]
    /\ UNCHANGED <<phase, disk, settings, tagsMap, palettes, renderedTagsSet,
                   darkenMemoization, thrown, writes>>

\* onunload() when the plugin is disabled
Unload ==
    /\ phase \in {"loaded", "layout", "ready", "failed"}
    /\ TaskMayStart
    /\ renderedTagsSet' = {}
    /\ styleEl' = Undef
    /\ phase' = "unloaded"
    /\ thrown' = FALSE
    /\ writes' = 0
    /\ lastCall' = [op |-> "onunload"]
    /\ UNCHANGED <<disk, settings, tagsMap, palettes, appendingCSSBuffer, flushPending,
                   darkenMemoization>>

-----------------------------------------------------------------------------
(* Specifications                                                           *)

\* the registry from a fresh install: the load, then tag discoveries
InitRegistry == InitWith({Undef})

NextRegistry ==
    \/ Onload
    \/ \E tagsArray \in SeqsUpTo(RegistryTags, MaxDiscovered) : LayoutReady(tagsArray)
    \/ LayoutReadyResume
    \/ \E tagsArray \in SeqsUpTo(RegistryTags, MaxDiscovered) : OnVaultEvent(tagsArray)

SpecRegistry == InitRegistry /\ [][NextRegistry]_vars

\* loading every shape of stored data, over plugin sessions
InitLoad == InitWith({Undef} \cup {Def(o) : o \in StoredObjects})

NextLoad ==
    \/ Onload
    \/ Unload

SpecLoad == InitLoad /\ [][NextLoad]_vars

\* colour resolution from a fresh install or a stored list of custom colours:
\* discoveries, edits of the custom colours field, updates, reloads and flushes
InitColors == InitWith({Undef, Def(StoredCustom)})

NextColors ==
    \/ Onload
    \/ \E tagsArray \in SeqsUpTo(ColorTags, MaxDiscovered) : LayoutReady(tagsArray)
    \/ LayoutReadyResume
    \/ \E tagsArray \in SeqsUpTo(ColorTags, MaxDiscovered) : OnVaultEvent(tagsArray)
    \/ UpdateResume
    \/ \E value \in CustomColorTexts \cup InvalidColorTexts : OnChangeCustomColors(value)
    \/ SaveSettingsResume
    \/ Flush

SpecColors == InitColors /\ [][NextColors]_vars

\* a vault where a nested tag is found before one of its cousins: discoveries,
\* updates and flushes under a stored list of custom colours
InitCoherence == InitWith({Def(StoredCustom)})

NextCoherence ==
    \/ Onload
    \/ \E tagsArray \in SeqsUpTo(CousinTags, MaxDiscovered) : LayoutReady(tagsArray)
    \/ LayoutReadyResume
    \/ \E tagsArray \in SeqsUpTo(CousinTags, MaxDiscovered) : OnVaultEvent(tagsArray)
    \/ UpdateResume
    \/ Flush

SpecCoherence == InitCoherence /\ [][NextCoherence]_vars

\* the delivery of the CSS from a fresh install or a stored list of custom
\* colours. The flush is a microtask: once queued it runs, whatever else does.
InitDelivery == InitWith({Undef, Def(StoredCustom)})

NextDelivery ==
    \/ Onload
    \/ \E tagsArray \in SeqsUpTo(CousinTags, MaxDiscovered) : LayoutReady(tagsArray)
    \/ LayoutReadyResume
    \/ \E tagsArray \in SeqsUpTo(CousinTags, MaxDiscovered) : OnVaultEvent(tagsArray)
    \/ UpdateResume
    \/ Flush

SpecDelivery == InitDelivery /\ [][NextDelivery]_vars /\ WF_vars(Flush)

\* the palettes in custom mode, from two stored configurations that differ in
\* everything but the list of custom colours
InitPalette == InitWith({Def(StoredCustom), Def(StoredCustomSmall)})

NextPalette ==
    \/ Onload
    \/ \E tagsArray \in SeqsUpTo(PaletteTags, MaxDiscovered) : LayoutReady(tagsArray)
    \/ LayoutReadyResume
    \/ \E tagsArray \in SeqsUpTo(PaletteTags, MaxDiscovered) : OnVaultEvent(tagsArray)
    \/ UpdateResume
    \/ \E value \in CustomColorTexts : OnChangeCustomColors(value)
    \/ SaveSettingsResume
    \/ Flush

SpecPalette == InitPalette /\ [][NextPalette]_vars

\* the toggle and the palette controls of the settings tab, over a vault
\* without tags and a stored list of custom colours
InitSettings == InitWith({Def(StoredCustom)})

NextSettings ==
    \/ Onload
    \/ LayoutReady(<<>>)
    \/ LayoutReadyResume
    \/ \E value \in BOOLEAN : OnChangeEnableCustomColors(value)
    \/ \E value \in PaletteSizes : OnChangePalette(value)
    \/ \E value \in SeedValues : OnChangeSeed(value)
    \/ \E value \in ChromaValues : OnChangeChroma(value)
    \/ \E value \in LightnessValues : OnChangeLightness(value)
    \/ SaveSettingsResume

SpecSettings == InitSettings /\ [][NextSettings]_vars

-----------------------------------------------------------------------------
(* Calls of the palette functions on their own                              *)

\* the largest palette size and seed of these calls
MaxPaletteSize == 5
MaxSeed == 6

\* the configurations generateColorPalette is called with
PaletteConfigs ==
    [isDarkTheme : BOOLEAN, paletteSize : 1..MaxPaletteSize, baseChroma : {16},
     baseLightness : {87}, seed : 0..MaxSeed, isShuffling : BOOLEAN,
     constantOffset : {0, 1, 179}]

\* the configurations generatePalettes calls findPaletteOffset with: the light
\* theme, seed 0 and no shuffling, and the values of the dropdowns for the rest;
\* constantOffset is what findPaletteOffset sets itself
OffsetConfigs ==
    [isDarkTheme : {FALSE}, paletteSize : 1..MaxPaletteSize,
     baseChroma : {5, 16, 32, 64, 128}, baseLightness : {0, 32, 64, 87, 90, 100},
     seed : {0}, isShuffling : {FALSE}]

\* a call of generateColorPalette with the arguments drawn: it reads and writes
\* no state
CallGenerateColorPalette ==
    /\ lastCall.op = "arguments of generateColorPalette"
    /\ lastCall' = [op |-> "generateColorPalette", cfg |-> lastCall.cfg,
                    result |-> generateColorPalette(lastCall.cfg)]
    /\ UNCHANGED <<phase, disk, settings, tagsMap, palettes, renderedTagsSet,
                   appendingCSSBuffer, flushPending, styleEl, darkenMemoization, thrown,
                   writes>>

\* a call of findPaletteOffset with the arguments drawn: it reads and writes no
\* state
CallFindPaletteOffset ==
    /\ lastCall.op = "arguments of findPaletteOffset"
    /\ lastCall' = [op |-> "findPaletteOffset",
                    paletteConfig |-> lastCall.paletteConfig,
                    offset |-> findPaletteOffset(lastCall.paletteConfig)]
    /\ UNCHANGED <<phase, disk, settings, tagsMap, palettes, renderedTagsSet,
                   appendingCSSBuffer, flushPending, styleEl, darkenMemoization, thrown,
                   writes>>

\* the backgrounds darkenColorForContrast is called with: generated colours of
\* several lightnesses, a custom colour and a mix of two
BackgroundLightnesses == {0, 40, 50, 87}

DarkenBackgrounds ==
    {toLch(lchString(l, 16, 0, 1)) : l \in BackgroundLightnesses}
        \cup {toLch(<<"#", "0", "0", "f">>),
              mix(toLch(<<"#", "f", "0", "0">>), <<"#", "0", "0", "f">>, 40)}

\* a call of darkenColorForContrast(baseColor)
CallDarkenColorForContrast(baseColor) ==
    /\ \E d \in {darkenColorForContrast(darkenMemoization, baseColor)} :
          /\ darkenMemoization' = d.memo
          /\ lastCall' = [op |-> "darkenColorForContrast", baseColor |-> baseColor,
                          result |-> d.result,
                          memoized |-> baseColor \in DOMAIN darkenMemoization]
    /\ UNCHANGED <<phase, disk, settings, tagsMap, palettes, renderedTagsSet,
                   appendingCSSBuffer, flushPending, styleEl, thrown, writes>>

InitDarken == InitWith({Undef})

NextDarken == \E baseColor \in DarkenBackgrounds : CallDarkenColorForContrast(baseColor)

SpecDarken == InitDarken /\ [][NextDarken]_vars

InitGenerate ==
    /\ InitFields({Undef})
    /\ lastCall \in {[op |-> "arguments of generateColorPalette", cfg |-> cfg] :
                        cfg \in PaletteConfigs}

NextGenerate == CallGenerateColorPalette

SpecGenerate == InitGenerate /\ [][NextGenerate]_vars

InitOffset ==
    /\ InitFields({Undef})
    /\ lastCall \in {[op |-> "arguments of findPaletteOffset", paletteConfig |-> c] :
                        c \in OffsetConfigs}

NextOffset == CallFindPaletteOffset

SpecOffset == InitOffset /\ [][NextOffset]_vars

-----------------------------------------------------------------------------
(* Properties of the registry                                               *)

\* the slot a registry holds for a key, 0 when it holds none
slotIn(m, key) == mapGetOr(m, key, 0)

\* the chunks of a key but the last, joined again
parentOf(key) ==
    LET chunks == split(key, "/")
    IN join(SubSeq(chunks, 1, Len(chunks) - 1), "/")

depthOf(key) == Len(split(key, "/"))

\* the slots a registry holds for the keys with the parent and the depth of key
siblingSlots(m, key) ==
    {m[i].slot : i \in {j \in 1..Len(m) : /\ parentOf(m[j].key) = parentOf(key)
                                         /\ depthOf(m[j].key) = depthOf(key)}}

\* C1: slot stability. No step of the plugin removes a key of the registry or
\* changes the slot the registry holds for it.
C1_SlotStability ==
    [][\A i \in 1..Len(tagsMap) :
          /\ mapHas(tagsMap', tagsMap[i].key)
          /\ slotIn(tagsMap', tagsMap[i].key) = tagsMap[i].slot]_vars

\* a saveKnownTags call that added entries to a registry that held some
C1_Witness ==
    /\ lastCall.op = "saveKnownTags"
    /\ Len(lastCall.before) > 0
    /\ Len(tagsMap) > Len(lastCall.before)

\* C2: the sibling slot rule. Every key a saveKnownTags call registers gets
\* 1 + the largest slot the registry holds at that moment for a key with the
\* same parent and the same depth, and 1 when there is none (stated for the
\* registries whose keys have no empty segment).
C2_SiblingSlotRule ==
    (/\ lastCall.op = "saveKnownTags"
     /\ \A i \in 1..Len(tagsMap) : <<>> \notin Range(split(tagsMap[i].key, "/")))
    => \A n \in 1..Len(lastCall.log) :
          lastCall.log[n].slot =
              1 + Max0(siblingSlots(lastCall.log[n].before, lastCall.log[n].key))

\* C5: idempotent registry growth. A saveKnownTags call writes the settings
\* exactly when it added an entry, then the written and the in-memory knownTags
\* are the registry; a call repeated with the same discovered tags adds
\* nothing and writes nothing.
C5_IdempotentGrowth ==
    lastCall.op = "saveKnownTags"
    => /\ SubSeq(tagsMap, 1, Len(lastCall.before)) = lastCall.before
       /\ (writes = 1) <=> (Len(tagsMap) > Len(lastCall.before))
       /\ (writes = 0) <=> (tagsMap = lastCall.before)
       /\ Len(lastCall.log) = Len(tagsMap) - Len(lastCall.before)
       /\ writes = 1 => /\ disk = Def(settings)
                        /\ settings.knownTags = tagsMap
       /\ lastCall.repeated => /\ tagsMap = lastCall.before
                               /\ writes = 0

\* a saveKnownTags call repeated with the same discovered tags, over a registry
\* the first call filled
C5_Witness ==
    /\ lastCall.op = "saveKnownTags"
    /\ lastCall.repeated
    /\ Len(getTagsFromApp(lastCall.tagsArray)) > 0
    /\ Len(tagsMap) > 0
    /\ writes = 0

\* C6: the registry keys are well-formed. No key is the empty path and no key
\* ends with '/'; a discovered tag that ends with '/' adds no entry.
C6_KeysWellFormed ==
    /\ \A i \in 1..Len(tagsMap) :
          /\ Len(tagsMap[i].key) > 0
          /\ ~endsWithSlash(tagsMap[i].key)
    /\ (/\ lastCall.op = "saveKnownTags"
        /\ \A k \in 1..Len(lastCall.tagsArray) :
              endsWithSlash(lastCall.tagsArray[k]))
       => tagsMap = lastCall.before

-----------------------------------------------------------------------------
(* Properties of loadSettings                                               *)

\* C10: version migration. Loading data whose _version is below 2 gives
\* palette 16 and _version 2 and writes once; loading data of _version 2 or
\* more, or no data, writes nothing and keeps the stored palette size, the
\* defaults filling the missing fields; the stored knownTags are carried over.
C10_VersionMigration ==
    lastCall.op = "onload"
    => LET stored == lastCall.stored
           has(f) == stored.def /\ f \in DOMAIN stored.val
           old == has("_version") /\ stored.val._version < 2
           current == has("_version") /\ stored.val._version >= 2
       IN /\ old => /\ settings.palette = 16
                    /\ settings._version = 2
                    /\ writes = 1
          /\ (current \/ ~stored.def)
             => /\ writes = 0
                /\ disk = stored
                /\ settings.palette = IF has("palette") THEN stored.val.palette
                                      ELSE DEFAULT_SETTINGS.palette
                /\ \A f \in DOMAIN DEFAULT_SETTINGS :
                      ~has(f) => settings[f] = DEFAULT_SETTINGS[f]
          /\ settings.knownTags = IF has("knownTags") THEN stored.val.knownTags
                                  ELSE <<>>
          /\ tagsMap = settings.knownTags

\* data of version 1 with a palette size and known tags has been loaded
C10_Witness ==
    /\ lastCall.op = "onload"
    /\ lastCall.stored.def
    /\ "_version" \in DOMAIN lastCall.stored.val
    /\ lastCall.stored.val._version = 1
    /\ "palette" \in DOMAIN lastCall.stored.val
    /\ lastCall.stored.val.palette = 32
    /\ Len(lastCall.stored.val.knownTags) > 0
    /\ settings.palette = 16
    /\ writes = 1

-----------------------------------------------------------------------------
(* Properties of colour resolution                                          *)

\* the blocks of CSS the last reload() or update() passed to appendCSS
emittedBlocks ==
    IF lastCall.op \in {"reload", "update"} THEN Range(lastCall.emitted) ELSE {}

\* the lookups getColors made in the last reload() or update(), those of a call
\* that threw included
lookupsMade ==
    IF lastCall.op \in {"reload", "update"}
    THEN UNION {Range(b.lookupsLight) \cup Range(b.lookupsDark) : b \in emittedBlocks}
         \cup Range(lastCall.failed)
    ELSE {}

\* the first k chunks joined: the ancestor prefix of depth k
prefixOf(chunks, k) == join(SubSeq(chunks, 1, k), "/")

\* the palette colour of a key: entry (slot - 1) mod length, slot 1 by default
paletteColor(m, palette, key) ==
    palette[(((IF mapHas(m, key) THEN slotIn(m, key) ELSE 1) - 1) % Len(palette)) + 1]

RECURSIVE blendOfPrefixes(_, _, _, _)
\* the colour of the first prefix mixed 40% toward that of each longer prefix
blendOfPrefixes(m, palette, chunks, k) ==
    IF k = 1 THEN toLch(paletteColor(m, palette, prefixOf(chunks, 1)))
    ELSE mix(blendOfPrefixes(m, palette, chunks, k - 1),
             paletteColor(m, palette, prefixOf(chunks, k)), 40)

\* C3: depth-weighted blending over the ancestor prefixes. For a tag s1/.../sn
\* getColors looks up at step k the key s1/.../sk, and the background is the
\* colour of s1 mixed 40% toward the colour of each longer prefix in turn.
C3_BlendOverPrefixes ==
    \A b \in emittedBlocks :
        LET chunks == split(b.tagName, "/")
        IN /\ Len(b.lookupsLight) = Len(chunks)
           /\ \A k \in 1..Len(chunks) : b.lookupsLight[k].key = prefixOf(chunks, k)
           /\ b.backgroundLight =
                  blendOfPrefixes(tagsMap, palettes.light.val, chunks, Len(chunks))
           /\ b.backgroundDark =
                  blendOfPrefixes(tagsMap, palettes.dark.val, chunks, Len(chunks))

\* C4: colour resolution never fails. No reload() or update() throws, and a
\* reload() emits a block for every key of the registry.
C4_NeverFails ==
    /\ ~thrown
    /\ lastCall.op = "reload" => Len(lastCall.emitted) = Len(tagsMap)

\* the CSS the document is left with: the text of the style element and the
\* blocks that wait in the buffer
cssBlocks == (IF styleEl.def THEN styleEl.val ELSE <<>>) \o appendingCSSBuffer

\* the block that sets the colours of a tag: the last one written for it
lastBlockOf(tagName) ==
    LET at == {i \in 1..Len(cssBlocks) : cssBlocks[i].tagName = tagName}
    IN cssBlocks[CHOOSE i \in at : \A j \in at : j <= i]

\* C14: coherence of the resolved colours. After an update() that did not throw,
\* the colours the CSS holds for every rendered tag are those getColors returns
\* for it under the registry and the palettes as they are now.
C14_CacheCoherence ==
    (lastCall.op = "update" /\ ~thrown)
    => \A tagName \in renderedTagsSet :
          (\E i \in 1..Len(cssBlocks) : cssBlocks[i].tagName = tagName)
          => LET b == lastBlockOf(tagName)
                 light == getColors(tagsMap, darkenMemoization, tagName, palettes.light)
                 dark == getColors(tagsMap, darkenMemoization, tagName, palettes.dark)
             IN /\ light.ok /\ dark.ok
                /\ b.backgroundLight = light.background
                /\ b.colorLight = light.color
                /\ b.backgroundDark = dark.background
                /\ b.colorDark = dark.color

\* the tags of the blocks a reload() or update() emitted, in order
emittedTags(call) == [i \in 1..Len(call.emitted) |-> call.emitted[i].tagName]

\* C15: idempotent recomputation. An update() that follows an update() emits
\* nothing and changes no state; after an update() every key of the registry is
\* in renderedTagsSet; a reload() emits one block for each key of the registry,
\* leaves exactly the keys rendered and sets the palettes the settings give.
C15_IdempotentRecomputation ==
    [][/\ (lastCall.op = "update" /\ lastCall'.op = "update")
          => /\ lastCall'.emitted = <<>>
             /\ UNCHANGED <<renderedTagsSet, appendingCSSBuffer, flushPending, styleEl,
                            palettes, tagsMap, settings>>
       /\ lastCall'.op = "update"
          => /\ Range(mapKeys(tagsMap')) \subseteq renderedTagsSet'
             /\ \A i, j \in 1..Len(lastCall'.emitted) :
                    i # j => lastCall'.emitted[i].tagName # lastCall'.emitted[j].tagName
             /\ \A i \in 1..Len(lastCall'.emitted) :
                    lastCall'.emitted[i].tagName \notin renderedTagsSet
       /\ lastCall'.op = "reload"
          => /\ emittedTags(lastCall') = mapKeys(tagsMap')
             /\ renderedTagsSet' = Range(mapKeys(tagsMap'))
             /\ palettes' = generatePalettes(settings')
             /\ lastCall.op = "reload"
                => /\ palettes' = palettes
                   /\ lastCall'.emitted = lastCall.emitted]_vars

\* C19: removeCSS is a clean cut. No block passed to appendCSS before the
\* removeCSS of a reload() or of onunload outlives it: after a reload() only the
\* blocks it emitted wait in the buffer, after onunload none does, and the flush
\* that follows a reload() leaves the style element with the blocks of that
\* reload() only.
C19_CleanCut ==
    [][/\ lastCall'.op = "reload"
          => /\ ~styleEl'.def
             /\ appendingCSSBuffer' = lastCall'.emitted
       /\ lastCall'.op = "onunload"
          => /\ ~styleEl'.def
             /\ appendingCSSBuffer' = <<>>
       /\ (lastCall.op = "reload" /\ lastCall'.op = "flush")
          => styleEl' = Def(lastCall.emitted)]_vars

\* the keys the registry may hold for the tags of the vault
CousinKeys ==
    {<<"a">>, <<"a", "/", "b">>, <<"a", "/", "b", "/", "a">>, <<"a", "/", "a">>}

\* whether a sequence of blocks holds a rule for the tag
hasRule(blocks, tagName) == \E i \in 1..Len(blocks) : blocks[i].tagName = tagName

\* C20: buffered CSS delivery. At most one flush is pending and the buffer is
\* empty after a flush; a flush appends the buffer to the style element as it
\* is; every block that waits in the buffer is written in the end; and every tag
\* of renderedTagsSet has its rule in the document in the end.
C20_BufferedDelivery ==
    /\ [](flushPending <= 1)
    /\ [](lastCall.op = "flush" => appendingCSSBuffer = <<>>)
    /\ [][lastCall'.op = "flush"
            => styleEl' = Def((IF styleEl.def THEN styleEl.val ELSE <<>>)
                                  \o appendingCSSBuffer)]_vars
    /\ \A tagName \in CousinKeys :
          /\ hasRule(appendingCSSBuffer, tagName)
                 ~> (styleEl.def /\ hasRule(styleEl.val, tagName))
          /\ (tagName \in renderedTagsSet)
                 ~> \/ tagName \notin renderedTagsSet
                    \/ styleEl.def /\ hasRule(styleEl.val, tagName)

\* C7: the custom-colour bypass. With enableCustomColors true both palettes are
\* the custom colour list after a reload, and every entry getColors uses is
\* entry (slot - 1) mod the length of the list, whatever the palette size,
\* chroma, lightness and seed.
C7_CustomColorBypass ==
    /\ (lastCall.op = "reload" /\ Prop(settings, "enableCustomColors") = Def(TRUE))
       => /\ palettes.light = Prop(settings, "customColors")
          /\ palettes.dark = Prop(settings, "customColors")
    /\ \A b \in emittedBlocks :
          /\ \A k \in 1..Len(b.lookupsLight) :
                LET look == b.lookupsLight[k]
                IN /\ look.length = Len(palettes.light.val)
                   /\ look.color =
                          Def(palettes.light.val[((look.order - 1) % look.length) + 1])
          /\ \A k \in 1..Len(b.lookupsDark) :
                LET look == b.lookupsDark[k]
                IN /\ look.length = Len(palettes.dark.val)
                   /\ look.color =
                          Def(palettes.dark.val[((look.order - 1) % look.length) + 1])

\* a reload under the stored palette size 8 with a custom list of one colour
\* emitted a block for a key of slot 2
C7_Witness ==
    /\ lastCall.op = "reload"
    /\ settings.palette = 8
    /\ Prop(settings, "customColors") = Def(<< <<"#", "0", "0", "f">> >>)
    /\ \E b \in emittedBlocks :
          \E k \in 1..Len(b.lookupsLight) : b.lookupsLight[k].order = 2

\* C8: the custom colours are always validated hex strings. Every entry of
\* settings.customColors, and of the palettes in custom mode, is '#' followed
\* by 3 or 6 hex digits.
C8_CustomColorsValid ==
    /\ "customColors" \in DOMAIN settings
       => \A i \in 1..Len(settings.customColors) :
             isValidHexColor(settings.customColors[i])
    /\ palettes.light.def
       => \A i \in 1..Len(palettes.light.val) : isValidHexColor(palettes.light.val[i])

\* C9: the default slot and the index range. A key getColors finds no entry for
\* is given slot 1, a key with an entry its slot; with a palette of length
\* L > 0 the entry used is (slot - 1) mod L, within 0..L-1.
C9_DefaultSlotAndIndex ==
    \A look \in lookupsMade :
        /\ ~look.has => look.order = 1
        /\ look.has => /\ mapHas(tagsMap, look.key)
                       /\ look.order = slotIn(tagsMap, look.key)
                       /\ look.order >= 1
        /\ look.length > 0
           => /\ look.index = Def((look.order - 1) % look.length)
              /\ look.index.val \in 0..(look.length - 1)
              /\ ~look.has => look.index.val = 0

\* getColors looked up a key without an entry, and a key of slot 2 in a palette
\* of one colour
C9_Witness ==
    /\ \E look \in lookupsMade : ~look.has /\ look.length > 0
    /\ \E look \in lookupsMade : look.has /\ look.order = 2 /\ look.length = 1

-----------------------------------------------------------------------------
(* Further properties of the registry                                       *)

\* the keys of the registry that have no empty segment
wellFormedKeys == {k \in Range(mapKeys(tagsMap)) : <<>> \notin Range(split(k, "/"))}

\* C17: sibling slots are distinct. Every slot is a positive integer, and two
\* distinct registered paths with the same parent prefix hold different slots
\* (stated for the paths without an empty segment).
C17_SiblingSlotsDistinct ==
    /\ \A i \in 1..Len(tagsMap) : tagsMap[i].slot \in Nat \ {0}
    /\ \A k1, k2 \in wellFormedKeys :
          (k1 # k2 /\ parentOf(k1) = parentOf(k2))
          => slotIn(tagsMap, k1) # slotIn(tagsMap, k2)

\* the non-empty segments of a path
segmentsOf(path) == SelectSeq(split(path, "/"), LAMBDA chunk : Len(chunk) > 0)

\* the discovered tags that pass the filter: '#' removed, not empty, no '/' at
\* the end
passedFilter(tagsArray) ==
    {t \in {stripHash(tagsArray[i]) : i \in 1..Len(tagsArray)} :
        Len(t) > 0 /\ t[Len(t)] # "/"}

\* C18: prefix closure. After a saveKnownTags call the registry holds every
\* ancestor prefix of each of its keys and of each discovered tag that passed
\* the filter, the tag itself included.
C18_PrefixClosure ==
    lastCall.op = "saveKnownTags"
    => \A path \in Range(mapKeys(tagsMap)) \cup passedFilter(lastCall.tagsArray) :
          \A k \in 1..Len(segmentsOf(path)) :
              mapHas(tagsMap, prefixOf(segmentsOf(path), k))

\* a call registered a discovered tag of two segments together with its parent
C18_Witness ==
    /\ lastCall.op = "saveKnownTags"
    /\ Len(lastCall.log) >= 2
    /\ \E path \in passedFilter(lastCall.tagsArray) :
          /\ Len(segmentsOf(path)) = 2
          /\ ~mapHas(lastCall.before, path)
          /\ ~mapHas(lastCall.before, prefixOf(segmentsOf(path), 1))

-----------------------------------------------------------------------------
(* Properties of the palette functions                                      *)

\* the score of an offset: the sum of the contrasts of the neighbours in the
\* palette generated with it, unshuffled and with seed 0
scoreOf(paletteConfig, offset) ==
    LET pal == generateColorPalette(
                   [isDarkTheme |-> paletteConfig.isDarkTheme,
                    paletteSize |-> paletteConfig.paletteSize,
                    baseChroma |-> paletteConfig.baseChroma,
                    baseLightness |-> paletteConfig.baseLightness,
                    seed |-> 0, isShuffling |-> FALSE, constantOffset |-> offset])
        pairs == {k \in 1..Len(pal) : k >= 2}
        sum[S \in SUBSET pairs] ==
            IF S = {} THEN 0
            ELSE LET k == CHOOSE x \in S : TRUE
                 IN contrastWeber(pal[k], pal[k - 1]) + sum[S \ {k}]
    IN sum[pairs]

\* C11: the offset search. findPaletteOffset returns an offset in 0..179 whose
\* score no other candidate exceeds, and the highest of the offsets with that
\* score.
C11_OffsetSearch ==
    lastCall.op = "findPaletteOffset"
    => /\ lastCall.offset \in 0..179
       /\ \A i \in 0..179 :
             /\ scoreOf(lastCall.paletteConfig, i)
                    <= scoreOf(lastCall.paletteConfig, lastCall.offset)
             /\ scoreOf(lastCall.paletteConfig, i)
                    = scoreOf(lastCall.paletteConfig, lastCall.offset)
                => i <= lastCall.offset

\* a search where several offsets tie for the best score, and one where the
\* best offset is not the last candidate
C11_Witness ==
    /\ lastCall.op = "findPaletteOffset"
    /\ lastCall.offset < 179
    /\ \E i \in 0..179 :
          /\ i # lastCall.offset
          /\ scoreOf(lastCall.paletteConfig, i)
                 = scoreOf(lastCall.paletteConfig, lastCall.offset)

\* the candidates of step i: lightness + i with chroma + 3, and lightness - i
\* with chroma + 20
lighterBy(baseColor, i) ==
    [candidateOf |-> baseColor, l |-> lightnessOf(baseColor) + i,
     c |-> chromaOf(baseColor) + 3]

darkerBy(baseColor, i) ==
    [candidateOf |-> baseColor, l |-> lightnessOf(baseColor) - i,
     c |-> chromaOf(baseColor) + 20]

\* the steps at which a candidate of a background of lightness baseL passes
passingSteps(baseL) ==
    {i \in 0..99 : lightPasses(baseL + i, baseL) \/ darkPasses(baseL - i, baseL)}

\* the first candidate that passes, the light one before the dark one of the
\* same step, and '#fff' when none does
firstPassing(baseColor) ==
    With(lightnessOf(baseColor), LAMBDA baseL :
    With(passingSteps(baseL), LAMBDA steps :
        IF steps = {} THEN White
        ELSE With(CHOOSE i \in steps : \A j \in steps : i <= j, LAMBDA i0 :
                 IF lightPasses(baseL + i0, baseL) THEN lighterBy(baseColor, i0)
                 ELSE darkerBy(baseColor, i0))))

\* C13: the foreground search. A call of darkenColorForContrast returns the first
\* candidate that passes, the light one of step i before the dark one, for i from
\* 0 to 99, and '#fff' exactly when none passes; a call for a background that
\* has a memo entry returns the entry, and no step changes or drops an entry.
C13_ForegroundSearch ==
    [][/\ \A k \in DOMAIN darkenMemoization :
              /\ k \in DOMAIN darkenMemoization'
              /\ darkenMemoization'[k] = darkenMemoization[k]
       /\ lastCall'.op = "darkenColorForContrast"
          => /\ lastCall'.result = firstPassing(lastCall'.baseColor)
             /\ (lastCall'.result = White)
                    <=> (passingSteps(lightnessOf(lastCall'.baseColor)) = {})
             /\ lastCall'.baseColor \in DOMAIN darkenMemoization
                => lastCall'.result = darkenMemoization[lastCall'.baseColor]
             /\ darkenMemoization'[lastCall'.baseColor] = lastCall'.result]_vars

\* a second call for a background whose foreground is a darker candidate found
\* after the first step, while the memo holds '#fff' for another background
C13_Witness ==
    /\ lastCall.op = "darkenColorForContrast"
    /\ lastCall.memoized
    /\ lastCall.result # White
    /\ lastCall.result.l < lightnessOf(lastCall.baseColor) - 1
    /\ \E k \in DOMAIN darkenMemoization : darkenMemoization[k] = White

\* the configuration the offset of a regeneration is searched with
offsetConfigOf(st) ==
    [isDarkTheme |-> FALSE, paletteSize |-> st.palette, baseChroma |-> st.chroma,
     baseLightness |-> st.lightness, seed |-> 0, isShuffling |-> FALSE]

\* C16: shared hue alignment. After a reload in generated mode the light and the
\* dark palette have the length of the palette setting, light[i] and dark[i]
\* have the same hue for every i, and the hues are those of the offset found for
\* the light, unshuffled, seed-0 configuration.
C16_SharedHueAlignment ==
    (lastCall.op = "reload" /\ Prop(settings, "enableCustomColors") # Def(TRUE))
    => /\ palettes.light.def /\ palettes.dark.def
       /\ Len(palettes.light.val) = settings.palette
       /\ Len(palettes.dark.val) = settings.palette
       /\ \A i \in 1..Len(palettes.light.val) :
             /\ palettes.light.val[i][4] = palettes.dark.val[i][4]
             /\ palettes.light.val[i][5] = palettes.dark.val[i][5]
       /\ {palettes.dark.val[i][4] : i \in 1..Len(palettes.dark.val)}
              = {(i * 360 + findPaletteOffset(offsetConfigOf(settings)) * settings.palette)
                     % (360 * settings.palette) : i \in 0..(settings.palette - 1)}

\* a regeneration with a seed that rotates the palettes, the two palettes
\* differing in lightness and chroma
C16_Witness ==
    /\ lastCall.op = "reload"
    /\ Prop(settings, "enableCustomColors") # Def(TRUE)
    /\ settings.seed > 0
    /\ Len(palettes.light.val) > 1
    /\ palettes.light.val[1] # palettes.dark.val[1]
    /\ palettes.light.val[1][4] # 0

\* the hue of a generated colour string, in units of 1 / paletteSize degrees
hueOf(str) == str[4]

\* C12: the palette size invariant. generateColorPalette returns paletteSize
\* colours with pairwise distinct hues within [0, 360), which are the hues
\* (i * 360 / N + offset) mod 360 for i = 0..N-1; shuffling and the seed
\* rotation permute them.
C12_PaletteSize ==
    lastCall.op = "generateColorPalette"
    => LET N == lastCall.cfg.paletteSize
           result == lastCall.result
       IN /\ Len(result) = N
          /\ \A i \in 1..N : /\ isLchString(result[i])
                             /\ result[i][5] = N
                             /\ hueOf(result[i]) >= 0
                             /\ hueOf(result[i]) < 360 * N
          /\ \A i, j \in 1..N : i # j => hueOf(result[i]) # hueOf(result[j])
          /\ {hueOf(result[i]) : i \in 1..N}
                 = {(i * 360 + lastCall.cfg.constantOffset * N) % (360 * N) :
                        i \in 0..(N - 1)}

\* a shuffled palette of several colours with a seed above its size, whose
\* hues wrap around 360
C12_Witness ==
    /\ lastCall.op = "generateColorPalette"
    /\ lastCall.cfg.isShuffling
    /\ lastCall.cfg.paletteSize >= 3
    /\ lastCall.cfg.seed > lastCall.cfg.paletteSize
    /\ lastCall.cfg.constantOffset = 179
    /\ \E i \in 1..(Len(lastCall.result) - 1) :
          hueOf(lastCall.result[i]) > hueOf(lastCall.result[i + 1])

====
